---- MODULE Spec2Model ----
(***************************************************************************)
(* A model of the AP NoLogin server (src/main.py): the media-URL signer,   *)
(* the URL validation of the media proxy, the ActivityPub content          *)
(* classifier and media-URL extractor, and the three request handlers      *)
(* /api/activity, /api/webfinger and /api/media with the disk cache they   *)
(* share.                                                                  *)
(*                                                                         *)
(* Strings are sequences of one-character strings, so that strip(),        *)
(* startswith(), split(), lower() and URL parsing are computed, not        *)
(* assumed.  JSON values are pairs <<kind, payload>>.                      *)
(***************************************************************************)
EXTENDS Integers, Sequences, FiniteSets, Bags, TLC

VARIABLES
    secret,     \* MEDIA_HMAC_SECRET of this process
    cache,      \* the disk cache: key string -> stored tuple
    inflight,   \* the bag of requests suspended at an await
    resp,       \* the request that completed last, with its response
    arg,        \* input of a pure function under test
    ret         \* its result

vars == <<secret, cache, inflight, resp, arg, ret>>

(***************************************************************************)
(* Characters and strings                                                  *)
(***************************************************************************)

\* The printable ASCII characters, code 32 to 126, in code order (the grave
\* accent, code 96, is held by a placeholder: no string of the model uses it).
Printable ==
    << " ", "!", "\"", "#", "$", "%", "&", "'", "(", ")", "*", "+", ",", "-", ".", "/",
       "0", "1", "2", "3", "4", "5", "6", "7", "8", "9", ":", ";", "<", "=", ">", "?",
       "@", "A", "B", "C", "D", "E", "F", "G", "H", "I", "J", "K", "L", "M", "N", "O",
       "P", "Q", "R", "S", "T", "U", "V", "W", "X", "Y", "Z", "[", "\\", "]", "^", "_",
       "<grave>", "a", "b", "c", "d", "e", "f", "g", "h", "i", "j", "k", "l", "m", "n", "o",
       "p", "q", "r", "s", "t", "u", "v", "w", "x", "y", "z", "{", "|", "}", "~" >>

AsciiChars == {Printable[i] : i \in 1..Len(Printable)}

\* ord(c) of an ASCII character.
Ord == [c \in AsciiChars |-> 31 + CHOOSE i \in 1..Len(Printable) : Printable[i] = c]

Chr(n) == Printable[n - 31]

IsAsciiStr(s) == \A i \in 1..Len(s) : s[i] \in AsciiChars

IsUpper(c) == c \in AsciiChars /\ Ord[c] >= 65 /\ Ord[c] <= 90

IsDigit(c) == c \in AsciiChars /\ Ord[c] >= 48 /\ Ord[c] <= 57

IsAlpha(c) == c \in AsciiChars /\ (IsUpper(c) \/ (Ord[c] >= 97 /\ Ord[c] <= 122))

\* str.lower()
Lower(s) == [i \in 1..Len(s) |-> IF IsUpper(s[i]) THEN Chr(Ord[s[i]] + 32) ELSE s[i]]

IsSpace(c) == c \in {" ", "\t", "\n", "\r"}

\* str.lstrip() / str.rstrip() / str.strip() of whitespace
RECURSIVE LStrip(_)
LStrip(s) == IF s # <<>> /\ IsSpace(Head(s)) THEN LStrip(Tail(s)) ELSE s

RECURSIVE RStrip(_)
RStrip(s) ==
    IF s # <<>> /\ IsSpace(s[Len(s)]) THEN RStrip(SubSeq(s, 1, Len(s) - 1)) ELSE s

Strip(s) == RStrip(LStrip(s))

\* str.rstrip(ch)
RECURSIVE RStripChar(_, _)
RStripChar(s, ch) ==
    IF s # <<>> /\ s[Len(s)] = ch THEN RStripChar(SubSeq(s, 1, Len(s) - 1), ch) ELSE s

\* str.startswith(p)
StartsWith(s, p) == Len(s) >= Len(p) /\ SubSeq(s, 1, Len(p)) = p

\* p in s
Contains(s, p) ==
    \E i \in 0..(Len(s) - Len(p)) : SubSeq(s, i + 1, i + Len(p)) = p

\* s.find(ch): the first index of ch in s, 0 when absent
RECURSIVE FindFrom(_, _, _)
FindFrom(s, ch, i) ==
    IF i > Len(s) THEN 0 ELSE IF s[i] = ch THEN i ELSE FindFrom(s, ch, i + 1)

Find(s, ch) == FindFrom(s, ch, 1)

\* s.rfind(ch): the last index of ch in s, 0 when absent
RECURSIVE RFindFrom(_, _, _)
RFindFrom(s, ch, i) ==
    IF i = 0 THEN 0 ELSE IF s[i] = ch THEN i ELSE RFindFrom(s, ch, i - 1)

RFind(s, ch) == RFindFrom(s, ch, Len(s))

\* s.split(ch)
RECURSIVE Split(_, _)
Split(s, ch) ==
    LET i == Find(s, ch)
    IN  IF i = 0 THEN <<s>>
        ELSE <<SubSeq(s, 1, i - 1)>> \o Split(SubSeq(s, i + 1, Len(s)), ch)

\* The value of a decimal numeral.
RECURSIVE DecimalValue(_)
DecimalValue(s) ==
    IF s = <<>> THEN 0
    ELSE 10 * DecimalValue(SubSeq(s, 1, Len(s) - 1)) + (Ord[s[Len(s)]] - 48)

\* What a call returns, or the exception it raises.
Returns(v) == [exc |-> "none", val |-> v]

Raises(e) == [exc |-> e, val |-> "raised"]

(***************************************************************************)
(* URL signing                                                             *)
(***************************************************************************)

\* The secrets a process may run with (MEDIA_HMAC_SECRET, or a random token).
Secrets == { <<"k", "1">>, <<"k", "2">> }

\* str.encode('utf-8') of an ASCII string
Utf8(s) == [i \in 1..Len(s) |-> Ord[s[i]]]

\* The digest is scaled down from 32 bytes to 2; like 32, 2 is 2 mod 3, so the
\* base64 text carries one '=' of padding.
DigestSpace == 256 * 256

RECURSIVE Mix(_, _)
Mix(h, bytes) ==
    IF bytes = <<>> THEN h
    ELSE Mix((h * 33 + Head(bytes)) % DigestSpace, Tail(bytes))

\* hmac.new(key, msg, hashlib.sha256).digest()
HmacDigest(key, msg) ==
    LET h == Mix(Mix(5381, key), msg) IN <<h \div 256, h % 256>>

B64Alphabet ==
    << "A", "B", "C", "D", "E", "F", "G", "H", "I", "J", "K", "L", "M", "N", "O", "P",
       "Q", "R", "S", "T", "U", "V", "W", "X", "Y", "Z", "a", "b", "c", "d", "e", "f",
       "g", "h", "i", "j", "k", "l", "m", "n", "o", "p", "q", "r", "s", "t", "u", "v",
       "w", "x", "y", "z", "0", "1", "2", "3", "4", "5", "6", "7", "8", "9", "-", "_" >>

B64(n) == B64Alphabet[n + 1]

\* base64.urlsafe_b64encode(bytes).decode('utf-8')
RECURSIVE urlsafe_b64encode(_)
urlsafe_b64encode(b) ==
    IF Len(b) = 0 THEN <<>>
    ELSE IF Len(b) = 1
    THEN << B64(b[1] \div 4), B64((b[1] % 4) * 16), "=", "=" >>
    ELSE IF Len(b) = 2
    THEN << B64(b[1] \div 4), B64((b[1] % 4) * 16 + b[2] \div 16),
            B64((b[2] % 16) * 4), "=" >>
    ELSE << B64(b[1] \div 4), B64((b[1] % 4) * 16 + b[2] \div 16),
            B64((b[2] % 16) * 4 + b[3] \div 64), B64(b[3] % 64) >>
         \o urlsafe_b64encode(SubSeq(b, 4, Len(b)))

\* sign_media_url under a given secret
SignWith(key, url) ==
    RStripChar(urlsafe_b64encode(HmacDigest(Utf8(key), Utf8(url))), "=")

\* hmac.compare_digest(a, b) on two str: TypeError unless both are ASCII
compare_digest(a, b) ==
    IF IsAsciiStr(a) /\ IsAsciiStr(b) THEN Returns(a = b) ELSE Raises("TypeError")

\* verify_media_signature under a given secret
VerifyWith(key, url, signature) == compare_digest(SignWith(key, url), signature)

sign_media_url(url) == SignWith(secret, url)

verify_media_signature(url, signature) == VerifyWith(secret, url, signature)

(***************************************************************************)
(* URL parsing and the URL validation of proxy_media                       *)
(***************************************************************************)

\* None, where a string is expected.
None == << "<None>" >>

Min(S) == CHOOSE x \in S : \A y \in S : x <= y

IsSchemeChar(c) == IsAlpha(c) \/ IsDigit(c) \/ c \in {"+", "-", "."}

\* urllib.parse.urlparse(url): the scheme (lower-cased) and the netloc.  The
\* strings of the model hold no '[' or ']' (no IPv6 literals).
urlparse(url) ==
    LET i         == Find(url, ":")
        hasScheme == /\ i > 1
                     /\ IsAlpha(url[1])
                     /\ \A j \in 1..(i - 1) : IsSchemeChar(url[j])
        scheme    == IF hasScheme THEN Lower(SubSeq(url, 1, i - 1)) ELSE <<>>
        rest      == IF hasScheme THEN SubSeq(url, i + 1, Len(url)) ELSE url
        after     == SubSeq(rest, 3, Len(rest))
        ends      == {k \in 1..Len(after) : after[k] \in {"/", "?", "#"}}
        stop      == IF ends = {} THEN Len(after) + 1 ELSE Min(ends)
        netloc    == IF StartsWith(rest, <<"/", "/">>)
                     THEN SubSeq(after, 1, stop - 1)
                     ELSE <<>>
    IN  [scheme |-> scheme, netloc |-> netloc]

\* ParseResult.hostname: the netloc without userinfo and port, lower-cased;
\* None when that is empty.
hostname_of(netloc) ==
    LET hostinfo == SubSeq(netloc, RFind(netloc, "@") + 1, Len(netloc))
        colon    == Find(hostinfo, ":")
        host     == IF colon = 0 THEN hostinfo ELSE SubSeq(hostinfo, 1, colon - 1)
    IN  IF host = <<>> THEN None ELSE Lower(host)

\* One octet of a dotted quad as ipaddress accepts it: one to three decimal
\* digits, no leading zero, at most 255.
IsOctet(p) ==
    /\ Len(p) >= 1 /\ Len(p) <= 3
    /\ \A i \in 1..Len(p) : IsDigit(p[i])
    /\ (Len(p) > 1 => p[1] # "0")
    /\ DecimalValue(p) <= 255

\* ipaddress.ip_address(h) does not raise ValueError (IPv4 only: a hostname
\* holds no ':').
IsIPv4Literal(h) ==
    LET parts == Split(h, ".")
    IN  Len(parts) = 4 /\ \A i \in 1..4 : IsOctet(parts[i])

\* The address as its four octets.
IPv4Octets(h) ==
    LET parts == Split(h, ".")
    IN  [i \in 1..4 |-> DecimalValue(parts[i])]

RECURSIVE Pow2(_)
Pow2(n) == IF n = 0 THEN 1 ELSE 2 * Pow2(n - 1)

\* address in IPv4Network(a.b.c.d/len); net is <<a, b, c, d, len>>.  The 32
\* bits are compared as two 16-bit halves.
InNetwork(addr, net) ==
    LET hi(o) == o[1] * 256 + o[2]
        lo(o) == o[3] * 256 + o[4]
    IN  IF net[5] <= 16
        THEN hi(addr) \div Pow2(16 - net[5]) = hi(net) \div Pow2(16 - net[5])
        ELSE /\ hi(addr) = hi(net)
             /\ lo(addr) \div Pow2(32 - net[5]) = lo(net) \div Pow2(32 - net[5])

\* ipaddress._IPv4Constants
PrivateNetworks ==
    { <<0, 0, 0, 0, 8>>, <<10, 0, 0, 0, 8>>, <<127, 0, 0, 0, 8>>,
      <<169, 254, 0, 0, 16>>, <<172, 16, 0, 0, 12>>, <<192, 0, 0, 0, 29>>,
      <<192, 0, 0, 170, 31>>, <<192, 0, 2, 0, 24>>, <<192, 168, 0, 0, 16>>,
      <<198, 18, 0, 0, 15>>, <<198, 51, 100, 0, 24>>, <<203, 0, 113, 0, 24>>,
      <<240, 0, 0, 0, 4>>, <<255, 255, 255, 255, 32>> }

is_private(addr) == \E net \in PrivateNetworks : InNetwork(addr, net)

is_loopback(addr) == InNetwork(addr, <<127, 0, 0, 0, 8>>)

is_link_local(addr) == InNetwork(addr, <<169, 254, 0, 0, 16>>)

is_reserved(addr) == InNetwork(addr, <<240, 0, 0, 0, 4>>)

is_multicast(addr) == InNetwork(addr, <<224, 0, 0, 0, 4>>)

\* The HTTPException a handler raises, or Passed.
HTTPException(status, detail) == [status |-> status, detail |-> detail]

Passed == [status |-> 0, detail |-> "passed"]

blocked_hostnames == { <<"l", "o", "c", "a", "l", "h", "o", "s", "t">>,
                       <<"0", ".", "0", ".", "0", ".", "0">> }

\* The address test of proxy_media.
BlockedAddress(hostname) ==
    LET ip == IPv4Octets(hostname)
    IN  \/ is_private(ip) \/ is_loopback(ip) \/ is_link_local(ip)
        \/ is_reserved(ip) \/ is_multicast(ip)

\* validate_media_url without its test of blocked host names.
validate_media_url_NoBlockedNames(media_url) ==
    LET parsed   == urlparse(media_url)
        hostname == hostname_of(parsed.netloc)
    IN  IF parsed.scheme \notin { <<"h", "t", "t", "p">>, <<"h", "t", "t", "p", "s">> }
        THEN HTTPException(400, "Only HTTP and HTTPS URLs are allowed")
        ELSE IF parsed.netloc = <<>> \/ hostname = None
        THEN HTTPException(400, "Invalid URL format")
        ELSE IF IsIPv4Literal(hostname) /\ BlockedAddress(hostname)
        THEN HTTPException(403, "Local network access is not allowed")
        ELSE Passed

\* validate_media_url whose outer "except Exception" also catches the
\* HTTPExceptions raised inside the block.
validate_media_url_Swallowed(media_url) ==
    LET parsed   == urlparse(media_url)
        hostname == hostname_of(parsed.netloc)
    IN  IF \/ parsed.scheme \notin { <<"h", "t", "t", "p">>, <<"h", "t", "t", "p", "s">> }
           \/ parsed.netloc = <<>>
           \/ hostname = None
           \/ hostname \in blocked_hostnames
           \/ (IsIPv4Literal(hostname) /\ BlockedAddress(hostname))
        THEN HTTPException(400, "Invalid URL format")
        ELSE Passed

\* The "Validate URL format" block of proxy_media: Passed, or the
\* HTTPException it raises.
validate_media_url(media_url) ==
    LET parsed   == urlparse(media_url)
        hostname == hostname_of(parsed.netloc)
    IN  IF parsed.scheme \notin { <<"h", "t", "t", "p">>, <<"h", "t", "t", "p", "s">> }
        THEN HTTPException(400, "Only HTTP and HTTPS URLs are allowed")
        ELSE IF parsed.netloc = <<>>
        THEN HTTPException(400, "Invalid URL format")
        ELSE IF hostname = None    \* None.lower(): AttributeError, caught
        THEN HTTPException(400, "Invalid URL format")
        ELSE IF hostname \in blocked_hostnames
        THEN HTTPException(403, "Local network access is not allowed")
        ELSE IF IsIPv4Literal(hostname)
        THEN IF BlockedAddress(hostname)
             THEN HTTPException(403, "Local network access is not allowed")
             ELSE Passed
        ELSE IF hostname = <<"l", "o", "c", "a", "l", "h", "o", "s", "t">>
        THEN HTTPException(403, "Local network access is not allowed")
        ELSE Passed

(***************************************************************************)
(* Inputs: URLs written from their components                              *)
(***************************************************************************)

\* Schemes as written in a URL, each with the scheme it denotes ("" for a URL
\* written without one).
SchemeCases ==
    { [text |-> <<"h", "t", "t", "p">>, denotes |-> "http"],
      [text |-> <<"h", "t", "t", "p", "s">>, denotes |-> "https"],
      [text |-> <<"H", "T", "T", "P">>, denotes |-> "http"],
      [text |-> <<"f", "t", "p">>, denotes |-> "ftp"],
      [text |-> <<"f", "i", "l", "e">>, denotes |-> "file"],
      [text |-> <<>>, denotes |-> ""] }

\* Hosts as written in a URL, each with what the host is: empty, a blocked
\* name, an IPv4 literal of some class, or another name.
HostCases ==
    { [text |-> <<>>, class |-> "empty"],
      [text |-> <<"l", "o", "c", "a", "l", "h", "o", "s", "t">>, class |-> "blockedname"],
      [text |-> <<"L", "o", "c", "a", "l", "H", "o", "s", "t">>, class |-> "blockedname"],
      [text |-> <<"0", ".", "0", ".", "0", ".", "0">>, class |-> "blockedname"],
      [text |-> <<"1", "2", "7", ".", "0", ".", "0", ".", "1">>, class |-> "loopback"],
      [text |-> <<"1", "6", "9", ".", "2", "5", "4", ".", "1", ".", "1">>, class |-> "linklocal"],
      [text |-> <<"1", "0", ".", "0", ".", "0", ".", "5">>, class |-> "private"],
      [text |-> <<"1", "7", "2", ".", "3", "1", ".", "2", "5", "5", ".", "1">>, class |-> "private"],
      [text |-> <<"1", "9", "2", ".", "1", "6", "8", ".", "1", ".", "1">>, class |-> "private"],
      [text |-> <<"2", "2", "4", ".", "0", ".", "0", ".", "1">>, class |-> "multicast"],
      [text |-> <<"2", "4", "0", ".", "0", ".", "0", ".", "1">>, class |-> "reserved"],
      [text |-> <<"8", ".", "8", ".", "8", ".", "8">>, class |-> "public"],
      [text |-> <<"1", "7", "2", ".", "3", "2", ".", "0", ".", "1">>, class |-> "public"],
      [text |-> <<"1", "0", "0", ".", "6", "4", ".", "0", ".", "1">>, class |-> "public"],
      [text |-> <<"e", "x", "a", "m", "p", "l", "e", ".", "c", "o", "m">>, class |-> "name"],
      [text |-> <<"c", "d", "n">>, class |-> "name"],
      [text |-> <<"1", "2", "7", ".", "1">>, class |-> "name"],
      [text |-> <<"0", "1", "0", ".", "0", ".", "0", ".", "5">>, class |-> "name"],
      [text |-> <<"l", "o", "c", "a", "l", "h", "o", "s", "t", ".">>, class |-> "name"] }

UserinfoCases == { <<>>, <<"u", "@">> }

PortCases == { <<>>, <<":", "8", "0">> }

\* scheme://userinfo host port /x
FormatUrl(scheme, userinfo, host, port) ==
    (IF scheme = <<>> THEN <<>> ELSE scheme \o <<":">>)
        \o <<"/", "/">> \o userinfo \o host \o port \o <<"/", "x">>

UrlCases ==
    { [scheme |-> sc.denotes, class |-> h.class,
       url |-> FormatUrl(sc.text, u, h.text, p)] :
        sc \in SchemeCases, h \in HostCases, u \in UserinfoCases, p \in PortCases }

(***************************************************************************)
(* Pure functions under test: the input is drawn at Init, a call stores    *)
(* the result                                                              *)
(***************************************************************************)

NotCalled == [called |-> FALSE, out |-> "none"]

Called(v) == [called |-> TRUE, out |-> v]

NoResp == [kind |-> "none"]

\* How many requests the server holds suspended at once.
MaxInFlight == 2

EmptyCache == << >>

\* The server is not running: only arg and ret change.
ServerOff ==
    /\ secret \in Secrets
    /\ cache = EmptyCache
    /\ inflight = EmptyBag
    /\ resp = NoResp

InitValidate == ServerOff /\ arg \in UrlCases /\ ret = NotCalled

CallValidate ==
    /\ ~ret.called
    /\ ret' = Called(validate_media_url(arg.url))
    /\ UNCHANGED <<secret, cache, inflight, resp, arg>>

NextValidate == CallValidate

SpecValidate == InitValidate /\ [][NextValidate]_vars

(***************************************************************************)
(* C3                                                                      *)
(***************************************************************************)

BlockedClasses ==
    {"empty", "blockedname", "loopback", "linklocal", "private", "multicast", "reserved"}

\* The URLs the claim names.
C3_Rejected ==
    { <<"h", "t", "t", "p", ":", "/", "/", "l", "o", "c", "a", "l", "h", "o", "s", "t", "/", "x">>,
      <<"h", "t", "t", "p", ":", "/", "/", "1", "2", "7", ".", "0", ".", "0", ".", "1", "/", "x">>,
      <<"h", "t", "t", "p", ":", "/", "/", "1", "6", "9", ".", "2", "5", "4", ".", "1", ".", "1", "/", "x">>,
      <<"h", "t", "t", "p", ":", "/", "/", "1", "0", ".", "0", ".", "0", ".", "5", "/", "x">>,
      <<"f", "t", "p", ":", "/", "/", "e", "x", "a", "m", "p", "l", "e", ".", "c", "o", "m", "/", "x">>,
      <<"h", "t", "t", "p", ":", "/", "/", "/", "x">> }

C3_Accepted == <<"h", "t", "t", "p", "s", ":", "/", "/", "e", "x", "a", "m", "p", "l", "e", ".", "c", "o", "m", "/", "x">>

\* C3: the URL validation of proxy_media rejects a URL exactly when its scheme
\* is neither http nor https, its host is empty, its host is localhost or
\* 0.0.0.0, or its host is an IP literal that is private, loopback, link-local,
\* reserved or multicast; every other URL passes.  The six URLs the claim names
\* are rejected and https://example.com/x passes.
C3_ValidationRules ==
    ret.called =>
        /\ (ret.out # Passed) <=>
              (arg.scheme \notin {"http", "https"} \/ arg.class \in BlockedClasses)
        /\ (arg.url \in C3_Rejected => ret.out # Passed)
        /\ (arg.url = C3_Accepted => ret.out = Passed)

\* The named URLs are among the inputs and have been validated.
C3_Witness ==
    /\ ret.called
    /\ arg.url = C3_Accepted
    /\ ret.out = Passed
    /\ C3_Rejected \subseteq {c.url : c \in UrlCases}

(***************************************************************************)
(* The signer under test                                                   *)
(***************************************************************************)

\* A character that is not ASCII (a code above 127).
NonAscii == "<U+00E9>"

\* The character whose code differs from that of c in bit k alone.  Bit 7 set
\* leaves ASCII; a code outside the printable range (a control character) has
\* no character in the model and is NoChar.
NoChar == "<none>"

FlipBit(c, k) ==
    LET n == Ord[c]
        m == IF (n \div Pow2(k)) % 2 = 1 THEN n - Pow2(k) ELSE n + Pow2(k)
    IN  IF m > 127 THEN NonAscii
        ELSE IF m >= 32 /\ m <= 126 /\ m # 96 THEN Chr(m)
        ELSE NoChar

\* The single-bit mutations of a signature.
BitMutations(sig) ==
    { [sig EXCEPT ![i] = FlipBit(sig[i], k)] : i \in 1..Len(sig), k \in 0..7 }
        \ { m \in { [sig EXCEPT ![i] = FlipBit(sig[i], k)] : i \in 1..Len(sig), k \in 0..7 } :
              \E i \in 1..Len(m) : m[i] = NoChar }

\* URLs a client sends to /api/media: a public one, also with surrounding
\* blanks, a blocked host name, a private address, a scheme that is not HTTP,
\* a URL without a host, and a blank one.
URL_EXAMPLE == <<"h", "t", "t", "p", "s", ":", "/", "/", "e", "x", "a", "m", "p", "l", "e", ".", "c", "o", "m", "/", "x">>

URL_CDN == <<"h", "t", "t", "p", "s", ":", "/", "/", "c", "d", "n", "/", "a", ".", "p", "n", "g">>

URL_CDN_PADDED == <<" ">> \o URL_CDN \o <<" ">>

URL_LOCALHOST == <<"h", "t", "t", "p", ":", "/", "/", "l", "o", "c", "a", "l", "h", "o", "s", "t", "/", "x">>

URL_PRIVATE == <<"h", "t", "t", "p", ":", "/", "/", "1", "0", ".", "0", ".", "0", ".", "5", "/", "x">>

URL_FTP == <<"f", "t", "p", ":", "/", "/", "e", "x", "a", "m", "p", "l", "e", ".", "c", "o", "m", "/", "x">>

URL_NO_HOST == <<"h", "t", "t", "p", ":", "/", "/", "/", "x">>

URL_BLANK == <<" ", " ">>

MediaUrls ==
    { URL_CDN, URL_CDN_PADDED, URL_LOCALHOST, URL_PRIVATE, URL_FTP, URL_NO_HOST,
      URL_BLANK }

\* URLs the signer is tried on.
SignerUrls == MediaUrls \cup { URL_EXAMPLE, <<>> }

\* Signatures a client sends: none, the signature of any of the URLs under any
\* secret, with or without its base64 padding, and a non-ASCII string.
SigCases ==
    { <<>>, <<NonAscii>> }
        \cup { SignWith(k, u) : k \in Secrets, u \in SignerUrls }
        \cup { SignWith(k, Strip(u)) : k \in Secrets, u \in SignerUrls }
        \cup { SignWith(k, u) \o <<"=">> : k \in Secrets, u \in SignerUrls }

SignerCases ==
    { [url |-> u, sig |-> s] : u \in SignerUrls, s \in SigCases }
        \cup { [url |-> u, sig |-> m] :
                 u \in { URL_EXAMPLE },
                 m \in UNION { BitMutations(SignWith(k, URL_EXAMPLE)) : k \in Secrets } }

InitSigner == ServerOff /\ arg \in SignerCases /\ ret = NotCalled

CallVerify ==
    /\ ~ret.called
    /\ ret' = Called(verify_media_signature(arg.url, arg.sig))
    /\ UNCHANGED <<secret, cache, inflight, resp, arg>>

NextSigner == CallVerify

SpecSigner == InitSigner /\ [][NextSigner]_vars

(***************************************************************************)
(* C5                                                                      *)
(***************************************************************************)

\* C5: verify_media_signature(url, s) returns a boolean for every url and
\* every string s: true when s is sign_media_url(url), false for every other
\* s, a single-bit mutation of the signature included; it never raises.
C5_VerifyIsExact ==
    ret.called => ret.out = Returns(arg.sig = sign_media_url(arg.url))

(***************************************************************************)
(* The server: requests, upstream responses, the cache                     *)
(***************************************************************************)

\* One step of a request, in the order the handler takes them: what was done
\* and on what (a URL, a cache key).
Ev(e, x) == [e |-> e, x |-> x]

\* The per-file ceiling of the media cache: 10 * 1024 * 1024 bytes.
MediaCacheLimit == 10 * 1024 * 1024

\* Response bodies, by their bytes and their length.
NoBody == [data |-> "", len |-> 0]

MediaBodies ==
    { [data |-> "png-a", len |-> 3],
      [data |-> "at-limit", len |-> MediaCacheLimit],
      [data |-> "over-limit", len |-> MediaCacheLimit + 1] }

s_image_png == <<"i", "m", "a", "g", "e", "/", "p", "n", "g">>

s_text_html == <<"t", "e", "x", "t", "/", "h", "t", "m", "l">>

s_octet_stream == <<"a", "p", "p", "l", "i", "c", "a", "t", "i", "o", "n", "/", "o", "c", "t", "e", "t", "-", "s", "t", "r", "e", "a", "m">>

\* What the upstream server of a media URL answers: a transport failure, or a
\* status with a Content-Type header and a body.
UpstreamMedia ==
    { [status |-> 0, ctype |-> <<>>, body |-> NoBody],
      [status |-> 404, ctype |-> s_text_html, body |-> NoBody] }
        \cup { [status |-> 200, ctype |-> ct, body |-> b] :
                 ct \in { s_image_png, <<"I", "m", "a", "g", "e", "/", "P", "N", "G">>, s_text_html, <<>> },
                 b \in MediaBodies }

\* response.raise_for_status() raises httpx.HTTPStatusError; a transport
\* failure (status 0 here) raises another httpx.HTTPError from client.get.
RaisesHTTPError(upstream) == upstream.status = 0 \/ upstream.status >= 400

\* cache.get(key): the stored value, or None
CacheHas(key) == key \in DOMAIN cache

\* cache.set(key, value, expire=...)
CacheSet(key, value) == (key :> value) @@ cache

\* f"media:{media_url}"
MediaKey(media_url) == <<"m", "e", "d", "i", "a", ":">> \o media_url

\* The response to a media request, with the request it answers and the steps
\* the handler took.
MediaResponse(url, sig, log, status, detail, body, media_type, xcache) ==
    [kind |-> "media", url |-> url, sig |-> sig, log |-> log, status |-> status,
     detail |-> detail, body |-> body, media_type |-> media_type, xcache |-> xcache]

MediaError(url, sig, log, exception) ==
    MediaResponse(url, sig, log, exception.status, exception.detail, NoBody, <<>>, "")

\* content_type or "application/octet-stream"
MediaTypeOf(content_type) ==
    IF content_type = <<>> THEN s_octet_stream ELSE content_type

\* proxy_media_enter looking in the cache before it validates the URL.
proxy_media_enter_CacheFirst(url, sig) ==
    LET media_url == Strip(url)
        verified  == verify_media_signature(media_url, sig)
        checked   == validate_media_url(media_url)
        cache_key == MediaKey(media_url)
        log1      == << Ev("sig_present", sig) >>
        log2      == Append(log1, Ev("sig_verified", media_url))
        log3      == Append(log2, Ev("cache_get", cache_key))
        log4      == Append(log3, Ev("url_validated", media_url))
        log5      == Append(log4, Ev("fetch", media_url))
    IN  IF media_url = <<>>
        THEN MediaError(url, sig, <<>>, HTTPException(400, "URL parameter is required"))
        ELSE IF sig = <<>>
        THEN MediaError(url, sig, <<>>, HTTPException(403, "Signature is required"))
        ELSE IF verified.exc # "none"
        THEN MediaError(url, sig, log1, HTTPException(500, "Internal Server Error"))
        ELSE IF ~verified.val
        THEN MediaError(url, sig, log1, HTTPException(403, "Invalid signature"))
        ELSE IF CacheHas(cache_key)
        THEN MediaResponse(url, sig, log3, 200, "", cache[cache_key][1],
                           MediaTypeOf(cache[cache_key][2]), "HIT")
        ELSE IF checked # Passed
        THEN MediaError(url, sig, log3, checked)
        ELSE [kind |-> "media", pc |-> "fetching", url |-> url, sig |-> sig,
              media_url |-> media_url, log |-> log5]

\* proxy_media up to its await of client.get: the response, when the handler
\* ends before it, or the suspended request.
proxy_media_enter(url, sig) ==
    LET media_url == Strip(url)
        verified  == verify_media_signature(media_url, sig)
        checked   == validate_media_url(media_url)
        cache_key == MediaKey(media_url)
        log1      == << Ev("sig_present", sig) >>
        log2      == Append(log1, Ev("sig_verified", media_url))
        log3      == Append(log2, Ev("url_validated", media_url))
        log4      == Append(log3, Ev("cache_get", cache_key))
        log5      == Append(log4, Ev("fetch", media_url))
    IN  IF media_url = <<>>
        THEN MediaError(url, sig, <<>>, HTTPException(400, "URL parameter is required"))
        ELSE IF sig = <<>>
        THEN MediaError(url, sig, <<>>, HTTPException(403, "Signature is required"))
        ELSE IF verified.exc # "none"     \* not caught: the framework answers 500
        THEN MediaError(url, sig, log1, HTTPException(500, "Internal Server Error"))
        ELSE IF ~verified.val
        THEN MediaError(url, sig, log1, HTTPException(403, "Invalid signature"))
        ELSE IF checked # Passed
        THEN MediaError(url, sig, log2, checked)
        ELSE IF CacheHas(cache_key)
        THEN MediaResponse(url, sig, log4, 200, "", cache[cache_key][1],
                           MediaTypeOf(cache[cache_key][2]), "HIT")
        ELSE [kind |-> "media", pc |-> "fetching", url |-> url, sig |-> sig,
              media_url |-> media_url, log |-> log5]

allowed_types ==
    { <<"i", "m", "a", "g", "e", "/">>, <<"v", "i", "d", "e", "o", "/">>,
      <<"a", "u", "d", "i", "o", "/">>, s_octet_stream }

\* The Content-Type test of proxy_media letting every type through.
AllowedContentType_Any(content_type) == Len(content_type) >= 0

\* The Content-Type test of proxy_media.
AllowedContentType(content_type) ==
    (\E t \in allowed_types : StartsWith(content_type, t)) \/ content_type = <<>>

\* StoresMedia without the size test.
StoresMedia_Always(content_bytes) == content_bytes.len >= 0

\* Whether proxy_media stores the body it fetched.
StoresMedia(content_bytes) == content_bytes.len <= MediaCacheLimit

\* proxy_media from the completion of client.get: the response and the cache
\* it leaves.
proxy_media_resume(req, upstream) ==
    LET content_type  == Lower(upstream.ctype)
        content_bytes == upstream.body
        cache_key     == MediaKey(req.media_url)
    IN  IF RaisesHTTPError(upstream)
        THEN [response |-> MediaError(req.url, req.sig, req.log,
                                HTTPException(500, "Failed to fetch media")),
              cache |-> cache]
        ELSE IF ~AllowedContentType(content_type)
        THEN [response |-> MediaError(req.url, req.sig, req.log,
                                HTTPException(400, "Invalid content type")),
              cache |-> cache]
        ELSE [response |-> MediaResponse(req.url, req.sig, req.log, 200, "",
                                content_bytes, MediaTypeOf(content_type), "MISS"),
              cache |-> IF StoresMedia(content_bytes)
                        THEN CacheSet(cache_key, <<content_bytes, content_type>>)
                        ELSE cache]

\* One request more is suspended / one suspended request is resumed.
Suspend(req) == inflight (+) SetToBag({req})

Resume(req) == inflight (-) SetToBag({req})

\* A client sends GET /api/media?url=..&sig=..
MediaStart(url, sig) ==
    /\ BagCardinality(inflight) < MaxInFlight
    /\ LET o == proxy_media_enter(url, sig)
       IN  IF "pc" \in DOMAIN o
           THEN inflight' = Suspend(o) /\ UNCHANGED resp
           ELSE resp' = o /\ UNCHANGED inflight
    /\ UNCHANGED <<secret, cache, arg, ret>>

\* The upstream answer to a media fetch arrives.
MediaFetchDone(req, upstream) ==
    /\ req.kind = "media"
    /\ LET o == proxy_media_resume(req, upstream)
       IN  /\ resp' = o.response
           /\ cache' = o.cache
    /\ inflight' = Resume(req)
    /\ UNCHANGED <<secret, arg, ret>>

\* The cache drops an entry: its TTL ran out, or the size limit culled it.
CacheExpire(key) ==
    /\ key \in DOMAIN cache
    /\ cache' = [k \in DOMAIN cache \ {key} |-> cache[k]]
    /\ UNCHANGED <<secret, inflight, resp, arg, ret>>

\* What clients send to /api/media under each secret: each URL with no
\* signature, with a non-ASCII string, with its signature as issued (over the
\* raw and over the stripped URL), and with a signature issued under another
\* secret.
MediaInputs ==
    [ k \in Secrets |->
        UNION { { [url |-> u, sig |-> g] :
                    g \in { <<>>, <<NonAscii>>, SignWith(k, u) }
                            \cup { SignWith(k2, Strip(u)) : k2 \in Secrets } } :
                u \in MediaUrls } ]

ServerInit ==
    /\ secret \in Secrets
    /\ cache = EmptyCache
    /\ inflight = EmptyBag
    /\ resp = NoResp
    /\ arg = NotCalled
    /\ ret = NotCalled

Expiry == \E key \in DOMAIN cache : CacheExpire(key)

NextMedia ==
    \/ \E in \in MediaInputs[secret] : MediaStart(in.url, in.sig)
    \/ \E req \in BagToSet(inflight) : \E upstream \in UpstreamMedia :
          MediaFetchDone(req, upstream)
    \/ Expiry

SpecMedia == ServerInit /\ [][NextMedia]_vars

(***************************************************************************)
(* C1, C4, C9: the media proxy                                             *)
(***************************************************************************)

\* The media requests a state shows: the suspended ones and the one that
\* completed last.
MediaSeen ==
    { q \in BagToSet(inflight) : q.kind = "media" }
        \cup (IF resp.kind = "media" THEN {resp} ELSE {})

\* The steps of proxy_media that the claim orders.
MediaSteps == << "sig_present", "sig_verified", "url_validated", "cache_get", "fetch" >>

SigVerifies(q) == VerifyWith(secret, Strip(q.url), q.sig) = Returns(TRUE)

UrlPasses(q) == validate_media_url(Strip(q.url)) = Passed

\* C1: in every media request the steps taken are an initial part of
\* signature present, signature verified, URL validated, cache read, fetch, in
\* that order: the cache is read and the URL fetched only after the signature
\* was present and verified and the URL passed validation; a request whose
\* signature is missing or does not verify, or whose URL fails validation, ends
\* in an error with neither a cache read nor a fetch.
C1_ChecksBeforeCacheAndFetch ==
    \A q \in MediaSeen :
        /\ Len(q.log) <= Len(MediaSteps)
        /\ \A i \in 1..Len(q.log) : q.log[i].e = MediaSteps[i]
        /\ (Len(q.log) >= 1 => q.sig # <<>>)
        /\ (Len(q.log) >= 2 => SigVerifies(q))
        /\ (Len(q.log) >= 3 => UrlPasses(q))
        /\ (Len(q.log) >= 4 => q.log[4].x = MediaKey(Strip(q.url)))
        /\ (Len(q.log) >= 5 => q.log[5].x = Strip(q.url))
        /\ ((q.sig = <<>> \/ ~SigVerifies(q) \/ ~UrlPasses(q)) =>
              ("status" \in DOMAIN q /\ q.status >= 400 /\ Len(q.log) < 4))

\* A request passed all three checks, missed the cache and fetched.
C1_Witness ==
    /\ resp.kind = "media"
    /\ resp.status = 200
    /\ resp.xcache = "MISS"
    /\ Len(resp.log) = 5

MediaEntriesWithinLimit ==
    \A key \in DOMAIN cache :
        StartsWith(key, <<"m", "e", "d", "i", "a", ":">>) =>
            cache[key][1].len <= MediaCacheLimit

\* The upstream answer is one proxy_media serves, and is over the limit.
OversizedAnswer(upstream) ==
    /\ ~RaisesHTTPError(upstream)
    /\ AllowedContentType(Lower(upstream.ctype))
    /\ upstream.body.len > MediaCacheLimit

\* The upstream answers that are served and are over the limit.
OversizedAnswers == { upstream \in UpstreamMedia : OversizedAnswer(upstream) }

\* The completed request was answered with the upstream bytes and type.
ServedFrom(upstream) ==
    /\ resp'.status = 200
    /\ resp'.body = upstream.body
    /\ resp'.media_type = MediaTypeOf(Lower(upstream.ctype))

\* C9 as claimed: media entries are at most 10 MiB; a larger response is still
\* served, and the cache is left without an entry for that url.
C9_OversizedLeavesNoEntry ==
    /\ []MediaEntriesWithinLimit
    /\ [][\A upstream \in OversizedAnswers : \A req \in BagToSet(inflight) :
            MediaFetchDone(req, upstream) =>
                (ServedFrom(upstream) /\ ~CacheHas(MediaKey(req.media_url))')]_vars

\* C9 as amended: media entries are at most 10 MiB; a larger response is still
\* served with its bytes and content type, and the request that fetched it
\* stores nothing: it leaves the cache as it was.
C9_OversizedNotStored ==
    /\ []MediaEntriesWithinLimit
    /\ [][\A upstream \in OversizedAnswers : \A req \in BagToSet(inflight) :
            MediaFetchDone(req, upstream) => (ServedFrom(upstream) /\ cache' = cache)]_vars

\* An over-limit body was served while the cache holds an entry at the limit.
C9_Witness ==
    /\ resp.kind = "media"
    /\ resp.status = 200
    /\ resp.xcache = "MISS"
    /\ resp.body.len > MediaCacheLimit
    /\ \E key \in DOMAIN cache : cache[key][1].len = MediaCacheLimit

(***************************************************************************)
(* JSON values                                                             *)
(***************************************************************************)

\* A JSON value is <<kind, payload>>: a string (of characters), a
\* number, a boolean, null (Python's None), an object (a function of its
\* keys) or a list (a sequence).
JStr(s) == <<"str", s>>

JNum(n) == <<"num", n>>

JBool(b) == <<"bool", b>>

JNull == <<"null", 0>>

JObj(f) == <<"obj", f>>

JList(q) == <<"list", q>>

EmptyObj == JObj(<< >>)

\* isinstance(x, str) / dict / list
IsStr(x) == x[1] = "str"

IsDict(x) == x[1] = "obj"

IsList(x) == x[1] = "list"

\* key in d
HasKey(d, key) == key \in DOMAIN d[2]

\* d.get(key): None when the key is missing
Get(d, key) == IF HasKey(d, key) THEN d[2][key] ELSE JNull

\* d.get(key, default)
GetOr(d, key, default) == IF HasKey(d, key) THEN d[2][key] ELSE default

\* bool(x): None, False, 0, "", [] and {} are false
Truthy(x) ==
    CASE x[1] = "null" -> FALSE
      [] x[1] = "bool" -> x[2]
      [] x[1] = "num"  -> x[2] # 0
      [] x[1] = "str"  -> x[2] # <<>>
      [] x[1] = "list" -> x[2] # <<>>
      [] x[1] = "obj"  -> DOMAIN x[2] # {}

\* The keys of the model's objects, as strings of characters.
KeyText ==
    [ key \in {"url", "href", "type", "icon", "name", "id"} |->
        CASE key = "url"  -> <<"u", "r", "l">>
          [] key = "href" -> <<"h", "r", "e", "f">>
          [] key = "type" -> <<"t", "y", "p", "e">>
          [] key = "icon" -> <<"i", "c", "o", "n">>
          [] key = "name" -> <<"n", "a", "m", "e">>
          [] key = "id"   -> <<"i", "d">> ]

\* Whether "for item in x" runs: lists, strings and dicts are iterable, None,
\* numbers and booleans raise TypeError.
Iterable(x) == x[1] \in {"list", "str", "obj"}

\* The items "for item in x" visits: the elements of a list, the characters
\* of a string, the keys of a dict.
Items(x) ==
    CASE x[1] = "list" -> { x[2][i] : i \in 1..Len(x[2]) }
      [] x[1] = "str"  -> { JStr(<<x[2][i]>>) : i \in 1..Len(x[2]) }
      [] x[1] = "obj"  -> { JStr(KeyText[key]) : key \in DOMAIN x[2] }
      [] OTHER        -> {}

(***************************************************************************)
(* ActivityPub classification and media-URL extraction                     *)
(***************************************************************************)

ACTIVITYPUB_TYPES ==
    { <<"P", "e", "r", "s", "o", "n">>,
      <<"O", "r", "g", "a", "n", "i", "z", "a", "t", "i", "o", "n">>,
      <<"S", "e", "r", "v", "i", "c", "e">>,
      <<"G", "r", "o", "u", "p">>,
      <<"A", "p", "p", "l", "i", "c", "a", "t", "i", "o", "n">>,
      <<"N", "o", "t", "e">>,
      <<"A", "r", "t", "i", "c", "l", "e">>,
      <<"V", "i", "d", "e", "o">>,
      <<"A", "u", "d", "i", "o">>,
      <<"I", "m", "a", "g", "e">>,
      <<"D", "o", "c", "u", "m", "e", "n", "t">>,
      <<"C", "r", "e", "a", "t", "e">>,
      <<"U", "p", "d", "a", "t", "e">>,
      <<"D", "e", "l", "e", "t", "e">>,
      <<"F", "o", "l", "l", "o", "w">>,
      <<"A", "c", "c", "e", "p", "t">>,
      <<"R", "e", "j", "e", "c", "t">>,
      <<"L", "i", "k", "e">>,
      <<"A", "n", "n", "o", "u", "n", "c", "e">>,
      <<"U", "n", "d", "o">>,
      <<"B", "l", "o", "c", "k">>,
      <<"A", "d", "d">>,
      <<"R", "e", "m", "o", "v", "e">>,
      <<"Q", "u", "e", "s", "t", "i", "o", "n">>,
      <<"E", "v", "e", "n", "t">>,
      <<"P", "l", "a", "c", "e">>,
      <<"T", "o", "m", "b", "s", "t", "o", "n", "e">>,
      <<"O", "r", "d", "e", "r", "e", "d", "C", "o", "l", "l", "e", "c", "t", "i", "o", "n">>,
      <<"O", "r", "d", "e", "r", "e", "d", "C", "o", "l", "l", "e", "c", "t", "i", "o", "n", "P", "a", "g", "e">>,
      <<"C", "o", "l", "l", "e", "c", "t", "i", "o", "n">>,
      <<"C", "o", "l", "l", "e", "c", "t", "i", "o", "n", "P", "a", "g", "e">> }

s_activity_json == <<"a", "p", "p", "l", "i", "c", "a", "t", "i", "o", "n", "/", "a", "c", "t", "i", "v", "i", "t", "y", "+", "j", "s", "o", "n">>

s_application_json == <<"a", "p", "p", "l", "i", "c", "a", "t", "i", "o", "n", "/", "j", "s", "o", "n">>

s_ld_json == <<"a", "p", "p", "l", "i", "c", "a", "t", "i", "o", "n", "/", "l", "d", "+", "j", "s", "o", "n">>

\* is_activitypub_content with a string type outside the vocabulary falling
\* through to the id test.
is_activitypub_content_FallThrough(content, content_type) ==
    IF ~(IsDict(content) \/ IsList(content)) THEN FALSE
    ELSE IF Contains(Lower(content_type), s_activity_json) THEN TRUE
    ELSE IF IsDict(content)
    THEN \/ HasKey(content, "@context")
         \/ /\ HasKey(content, "type")
            /\ IsStr(Get(content, "type"))
            /\ Get(content, "type")[2] \in ACTIVITYPUB_TYPES
         \/ /\ HasKey(content, "type")
            /\ IsList(Get(content, "type"))
            /\ \E t \in Items(Get(content, "type")) : IsStr(t) /\ t[2] \in ACTIVITYPUB_TYPES
         \/ HasKey(content, "id")
    ELSE /\ content[2] # <<>>
         /\ IsDict(content[2][1])
         /\ (HasKey(content[2][1], "@context") \/ HasKey(content[2][1], "type"))

is_activitypub_content(content, content_type) ==
    IF ~(IsDict(content) \/ IsList(content)) THEN FALSE
    ELSE IF Contains(Lower(content_type), s_activity_json) THEN TRUE
    ELSE IF IsDict(content)
    THEN IF HasKey(content, "@context") THEN TRUE
         ELSE IF HasKey(content, "type") /\ IsStr(Get(content, "type"))
         THEN Get(content, "type")[2] \in ACTIVITYPUB_TYPES
         ELSE IF HasKey(content, "type") /\ IsList(Get(content, "type"))
         THEN \E t \in Items(Get(content, "type")) : IsStr(t) /\ t[2] \in ACTIVITYPUB_TYPES
         ELSE HasKey(content, "id")
    ELSE IF content[2] = <<>> THEN FALSE
    ELSE IF IsDict(content[2][1])
    THEN HasKey(content[2][1], "@context") \/ HasKey(content[2][1], "type")
    ELSE FALSE

\* a or b
PyOr(a, b) == IF Truthy(a) THEN a ELSE b

extract_url_from_media_object(media_obj) ==
    IF IsStr(media_obj) THEN media_obj
    ELSE IF IsDict(media_obj)
    THEN LET url == PyOr(Get(media_obj, "url"), Get(media_obj, "href"))
         IN  IF IsDict(url) THEN Get(url, "href") ELSE url
    ELSE JNull

s_http_prefix == <<"h", "t", "t", "p", ":", "/", "/">>

s_https_prefix == <<"h", "t", "t", "p", "s", ":", "/", "/">>

\* isinstance(url, str) and url.startswith(('http://', 'https://'))
IsHttpUrl(url) ==
    IsStr(url) /\ (StartsWith(url[2], s_http_prefix) \/ StartsWith(url[2], s_https_prefix))

\* The URLs one media reference adds to signed_media.
MediaUrlsOf(media_obj) ==
    LET url == extract_url_from_media_object(media_obj)
    IN  IF IsHttpUrl(url) THEN {url[2]} ELSE {}

\* The URLs the icon of an object adds ("if icon:").
IconUrlsOf(obj) ==
    IF Truthy(Get(obj, "icon")) THEN MediaUrlsOf(Get(obj, "icon")) ELSE {}

s_Emoji == <<"E", "m", "o", "j", "i">>

\* The URLs a loop over tags adds: the icons of the dict tags of type Emoji.
EmojiUrlsOf(tags) ==
    UNION { IF IsDict(tag) /\ IsStr(Get(tag, "type")) /\ Get(tag, "type")[2] = s_Emoji THEN IconUrlsOf(tag) ELSE {} :
              tag \in Items(tags) }

\* The URLs the loop over attachments adds.
AttachmentUrlsOf(attachments) ==
    UNION { MediaUrlsOf(att) : att \in Items(attachments) }

\* The three values sign_media_urls_in_content iterates over.
AttributedTags(content) ==
    IF HasKey(content, "attributedTo") /\ IsDict(Get(content, "attributedTo"))
    THEN GetOr(Get(content, "attributedTo"), "tag", JList(<<>>))
    ELSE JList(<<>>)

Attachments(content) == GetOr(content, "attachment", JList(<<>>))

Tags(content) == GetOr(content, "tag", JList(<<>>))

\* sign_media_urls_in_content: the signed_media dict, or the TypeError of a
\* loop over a value that is not iterable.
sign_media_urls_in_content(content) ==
    IF ~IsDict(content) THEN Returns(<< >>)
    ELSE IF \/ ~Iterable(AttributedTags(content))
            \/ ~Iterable(Attachments(content))
            \/ ~Iterable(Tags(content))
    THEN Raises("TypeError")
    ELSE LET attributed == IF HasKey(content, "attributedTo")
                                /\ IsDict(Get(content, "attributedTo"))
                           THEN IconUrlsOf(Get(content, "attributedTo"))
                           ELSE {}
             urls == IconUrlsOf(content)
                        \cup attributed
                        \cup EmojiUrlsOf(AttributedTags(content))
                        \cup AttachmentUrlsOf(Attachments(content))
                        \cup EmojiUrlsOf(Tags(content))
         IN  Returns([url \in urls |-> sign_media_url(url)])

(***************************************************************************)
(* The classifier under test                                               *)
(***************************************************************************)

s_Note == <<"N", "o", "t", "e">>

s_Person == <<"P", "e", "r", "s", "o", "n">>

s_Foo == <<"F", "o", "o">>

s_context == <<"h", "t", "t", "p", "s", ":", "/", "/", "w", "w", "w", ".", "w", "3", ".", "o", "r", "g", "/", "n", "s", "/", "a", "c", "t", "i", "v", "i", "t", "y", "s", "t", "r", "e", "a", "m", "s">>

s_hi == <<"h", "i">>

s_x == <<"x">>

\* Stands for a member an object does not have.
Absent == <<"absent", 0>>

\* The values the `type` member takes.
TypeCases ==
    { Absent, JStr(s_Note), JStr(s_Foo), JStr(<<>>), JNull, JNum(5), EmptyObj,
      JList(<<>>), JList(<<JStr(s_Foo)>>), JList(<<JStr(s_Foo), JStr(s_Person)>>),
      JList(<<JNum(5), JStr(s_Note)>>), JList(<<JNum(5)>>) }

\* The object with the given members; a member given as Absent is left out.
Member(key, value) == IF value[1] = "absent" THEN << >> ELSE key :> value

ObjectCases ==
    { JObj(Member("@context", ctx) @@ Member("type", type) @@ Member("id", id)
             @@ Member("content", content)) :
        ctx \in {Absent, JStr(s_context)}, type \in TypeCases,
        id \in {Absent, JStr(s_x)}, content \in {Absent, JStr(s_hi)} }

ArrayCases ==
    { JList(<<>>), JList(<<JStr(s_x)>>), JList(<<JNum(5)>>), JList(<<EmptyObj>>),
      JList(<<JObj("@context" :> JStr(s_context))>>),
      JList(<<JObj("type" :> JStr(s_Foo))>>),
      JList(<<JObj("id" :> JStr(s_x))>>),
      JList(<<JObj("id" :> JStr(s_x)), JObj("type" :> JStr(s_Note))>>),
      JList(<<JStr(s_x), JObj("type" :> JStr(s_Note))>>) }

ScalarCases == { JStr(s_Note), JNum(5), JNull, JBool(TRUE) }

ContentTypeCases ==
    { s_application_json,
      s_activity_json,
      s_activity_json \o <<";", " ", "c", "h", "a", "r", "s", "e", "t", "=", "u", "t", "f", "-", "8">>,
      s_ld_json,
      <<>> }

ClassifyCases ==
    [content : ObjectCases \cup ArrayCases \cup ScalarCases, content_type : ContentTypeCases]

InitClassify == ServerOff /\ arg \in ClassifyCases /\ ret = NotCalled

CallClassify ==
    /\ ~ret.called
    /\ ret' = Called(is_activitypub_content(arg.content, arg.content_type))
    /\ UNCHANGED <<secret, cache, inflight, resp, arg>>

NextClassify == CallClassify

SpecClassify == InitClassify /\ [][NextClassify]_vars

\* Whether the `type` of an object names the vocabulary: a string in it, or a
\* list with a string in it.
TypeInVocabulary(obj) ==
    /\ HasKey(obj, "type")
    /\ \/ IsStr(obj[2]["type"]) /\ obj[2]["type"][2] \in ACTIVITYPUB_TYPES
       \/ /\ IsList(obj[2]["type"])
          /\ \E i \in 1..Len(obj[2]["type"][2]) :
                /\ IsStr(obj[2]["type"][2][i])
                /\ obj[2]["type"][2][i][2] \in ACTIVITYPUB_TYPES

\* Whether the `type` of an object is a string or a list, the two shapes the
\* vocabulary test decides.
TypeDecides(obj) ==
    HasKey(obj, "type") /\ (IsStr(obj[2]["type"]) \/ IsList(obj[2]["type"]))

FirstElementMarked(array) ==
    /\ Len(array[2]) > 0
    /\ IsDict(array[2][1])
    /\ (HasKey(array[2][1], "@context") \/ HasKey(array[2][1], "type"))

SaysActivityJson(content_type) == Contains(Lower(content_type), s_activity_json)

Classified == ret.called /\ (IsDict(arg.content) \/ IsList(arg.content))

\* C6 as stated: for every object or array, the answer is the first match of
\* (a) an activity+json content type, (b) `@context`, (c) a vocabulary
\* `type`, (d) an `id`, whatever the `type`; an array is accepted iff its
\* first element is an object with `@context` or `type`.
C6_FirstMatchHeuristic ==
    Classified =>
        ret.out = IF SaysActivityJson(arg.content_type) THEN TRUE
                  ELSE IF IsDict(arg.content)
                  THEN \/ HasKey(arg.content, "@context")
                       \/ TypeInVocabulary(arg.content)
                       \/ HasKey(arg.content, "id")
                  ELSE FirstElementMarked(arg.content)

\* C6: for every object or array, the answer is: accept on an activity+json
\* content type; else an object is accepted if it has `@context`; else, if
\* its `type` is a string or a list, it is accepted iff the type names the
\* vocabulary (an `id` does not rescue it); else it is accepted iff it has
\* an `id`.  An array is accepted iff its first element is an object with
\* `@context` or `type`.
C6_TypeDecidesBeforeId ==
    Classified =>
        ret.out = IF SaysActivityJson(arg.content_type) THEN TRUE
                  ELSE IF IsDict(arg.content)
                  THEN IF HasKey(arg.content, "@context") THEN TRUE
                       ELSE IF TypeDecides(arg.content) THEN TypeInVocabulary(arg.content)
                       ELSE HasKey(arg.content, "id")
                  ELSE FirstElementMarked(arg.content)

\* An object with an `id` and a string `type` outside the vocabulary has
\* been classified under a plain JSON content type, and rejected.
C6_Witness ==
    /\ ret.called
    /\ arg.content_type = s_application_json
    /\ IsDict(arg.content)
    /\ DOMAIN arg.content[2] = {"type", "id"}
    /\ IsStr(arg.content[2]["type"])
    /\ arg.content[2]["type"][2] = s_Foo
    /\ ret.out = FALSE

(***************************************************************************)
(* Media-URL extraction under test                                         *)
(***************************************************************************)

URL_ICON_B == <<"h", "t", "t", "p", "s", ":", "/", "/", "c", "d", "n", "/", "b", ".", "p", "n", "g">>

URL_EMOJI == <<"h", "t", "t", "p", ":", "/", "/", "c", "d", "n", "/", "e", ".", "g", "i", "f">>

URL_ATTACHMENT == <<"h", "t", "t", "p", "s", ":", "/", "/", "c", "d", "n", "/", "v", ".", "m", "p", "4">>

URL_RELATIVE == <<"/", "a", ".", "p", "n", "g">>

URL_DATA == <<"d", "a", "t", "a", ":", ",", "x">>

s_Hashtag == <<"H", "a", "s", "h", "t", "a", "g">>

\* A custom-emoji tag with the given icon.
EmojiTag(icon) == JObj(("type" :> JStr(s_Emoji)) @@ ("icon" :> icon))

\* The values the top-level `icon` member takes.
IconCases ==
    { Absent, JNull, JStr(<<>>), JStr(URL_CDN), JStr(URL_RELATIVE), JNum(5),
      JObj("url" :> JStr(URL_CDN)),
      JObj("href" :> JStr(URL_CDN)),
      JObj("url" :> JObj("href" :> JStr(URL_CDN))),
      JObj("url" :> JObj("name" :> JStr(s_x))),
      JObj(("url" :> JStr(<<>>)) @@ ("href" :> JStr(URL_ICON_B))),
      JObj(("url" :> JStr(URL_CDN)) @@ ("href" :> JStr(URL_ICON_B))),
      JObj("url" :> JStr(URL_DATA)),
      JObj("url" :> JList(<<JObj("href" :> JStr(URL_CDN))>>)),
      JObj("name" :> JStr(s_x)),
      JList(<<JObj("url" :> JStr(URL_CDN))>>) }

\* The values the `attributedTo` member takes.
AttributedToCases ==
    { Absent, JStr(URL_EXAMPLE),
      JObj("icon" :> JObj("url" :> JStr(URL_ICON_B))),
      JObj(("icon" :> JStr(URL_CDN))
             @@ ("tag" :> JList(<<EmojiTag(JObj("url" :> JStr(URL_EMOJI)))>>))),
      JObj("tag" :> JList(<<JObj(("type" :> JStr(s_Hashtag))
                                    @@ ("icon" :> JStr(URL_EMOJI)))>>)),
      JObj("tag" :> JNull),
      JList(<<JObj("icon" :> JStr(URL_ICON_B))>>) }

\* The values the top-level `attachment` member takes.
AttachmentCases ==
    { Absent, JNull, JNum(5), JList(<<>>), JStr(URL_ATTACHMENT),
      JObj("url" :> JStr(URL_ATTACHMENT)),
      JList(<<JObj("url" :> JStr(URL_ATTACHMENT))>>),
      JList(<<JStr(URL_ATTACHMENT), JObj("href" :> JStr(URL_CDN)),
              JObj("url" :> JStr(URL_DATA)), JNull>>) }

\* The values the top-level `tag` member takes.
TagCases ==
    { Absent, JNull, JList(<<>>),
      JList(<<EmojiTag(JObj("url" :> JStr(URL_EMOJI)))>>),
      JList(<<EmojiTag(JNull), EmojiTag(JStr(URL_RELATIVE)), JStr(s_Emoji),
              JObj(("type" :> JStr(s_Hashtag)) @@ ("icon" :> JStr(URL_ICON_B)))>>),
      JObj(("type" :> JStr(s_Emoji)) @@ ("icon" :> JStr(URL_EMOJI))) }

SignMediaCases ==
    { JObj(Member("icon", icon) @@ Member("attributedTo", attributedTo)
             @@ Member("attachment", attachment) @@ Member("tag", tag)) :
        icon \in IconCases, attributedTo \in AttributedToCases,
        attachment \in AttachmentCases, tag \in TagCases }

InitSignMedia == ServerOff /\ arg \in SignMediaCases /\ ret = NotCalled

CallSignMedia ==
    /\ ~ret.called
    /\ ret' = Called(sign_media_urls_in_content(arg))
    /\ UNCHANGED <<secret, cache, inflight, resp, arg>>

NextSignMedia == CallSignMedia

SpecSignMedia == InitSignMedia /\ [][NextSignMedia]_vars

\* The elements of a member that is a list; nothing for any other shape.
Elements(x) == IF IsList(x) THEN { x[2][i] : i \in 1..Len(x[2]) } ELSE {}

\* The http(s) string URL extract_url_from_media_object yields for a media
\* reference, if it yields one.
YieldedUrls(media_obj) ==
    LET url == extract_url_from_media_object(media_obj)
    IN  IF IsStr(url) /\ (StartsWith(url[2], s_http_prefix) \/ StartsWith(url[2], s_https_prefix))
        THEN {url[2]}
        ELSE {}

\* The icons of the entries of type Emoji among the elements of a tag list.
EmojiIcons(tags) ==
    { tag[2]["icon"] : tag \in { e \in Elements(tags) :
                                    /\ IsDict(e)
                                    /\ HasKey(e, "icon")
                                    /\ HasKey(e, "type")
                                    /\ IsStr(e[2]["type"])
                                    /\ e[2]["type"][2] = s_Emoji } }

\* The media references at the locations the walk covers.
WalkedReferences(content) ==
    LET attributedTo == Get(content, "attributedTo")
    IN  (IF HasKey(content, "icon") THEN {content[2]["icon"]} ELSE {})
          \cup (IF IsDict(attributedTo) /\ HasKey(attributedTo, "icon")
                THEN {attributedTo[2]["icon"]} ELSE {})
          \cup (IF IsDict(attributedTo) THEN EmojiIcons(Get(attributedTo, "tag")) ELSE {})
          \cup Elements(Get(content, "attachment"))
          \cup EmojiIcons(Get(content, "tag"))

WalkedUrls(content) == UNION { YieldedUrls(ref) : ref \in WalkedReferences(content) }

\* C10 as stated: for every dict content the call returns a map; its keys are
\* exactly the http(s) string URLs that extract_url_from_media_object yields
\* at the walked locations, and every value verifies for its key.
C10_SignedMapIsTheWalk ==
    ret.called =>
        /\ ret.out.exc = "none"
        /\ DOMAIN ret.out.val = WalkedUrls(arg)
        /\ \A k \in DOMAIN ret.out.val :
              verify_media_signature(k, ret.out.val[k]) = Returns(TRUE)

(***************************************************************************)
(* /api/webfinger                                                          *)
(***************************************************************************)

\* A response body that is not JSON: response.json() raises on it.
NotJson == <<"notjson", 0>>

s_acct == <<"a", "c", "c", "t", ":">>

s_alice == <<"a", "l", "i", "c", "e">>

s_text_html_link == <<"t", "e", "x", "t", "/", "h", "t", "m", "l">>

RESOURCE_ACCT == <<"a", "c", "c", "t", ":", "a", "l", "i", "c", "e", "@", "e", "x", "a", "m", "p", "l", "e", ".", "c", "o", "m">>

RESOURCE_ACCT_BAD == <<"a", "c", "c", "t", ":", "a", "l", "i", "c", "e">>

RESOURCE_URL == <<"h", "t", "t", "p", "s", ":", "/", "/", "e", "x", "a", "m", "p", "l", "e", ".", "c", "o", "m", "/", "u", "s", "e", "r", "s", "/", "a", "l", "i", "c", "e">>

RESOURCE_PLAIN == <<"e", "x", "a", "m", "p", "l", "e", ".", "c", "o", "m">>

ACTOR_URL_LOOPBACK == <<"h", "t", "t", "p", ":", "/", "/", "1", "2", "7", ".", "0", ".", "0", ".", "1", "/", "x">>

HREF_SAME_HOST == <<"h", "t", "t", "p", "s", ":", "/", "/", "e", "x", "a", "m", "p", "l", "e", ".", "c", "o", "m", "/", "u", "s", "e", "r", "s", "/", "a", "l", "i", "c", "e">>

HREF_OTHER_HOST == <<"h", "t", "t", "p", "s", ":", "/", "/", "s", "o", "c", "i", "a", "l", ".", "e", "x", "a", "m", "p", "l", "e", "/", "u", "s", "e", "r", "s", "/", "a", "l", "i", "c", "e">>

\* f"https://{domain}/.well-known/webfinger?resource={resource}"
WebfingerUrl(domain, resource) ==
    s_https_prefix \o domain \o <<"/", ".", "w", "e", "l", "l", "-", "k", "n", "o", "w", "n", "/", "w", "e", "b", "f", "i", "n", "g", "e", "r", "?", "r", "e", "s", "o", "u", "r", "c", "e", "=">> \o resource

\* not x, for a query parameter: it is missing (None) or empty
Missing(x) == x = None \/ x = <<>>

NoSummary ==
    [handle |-> JNull, nickname |-> JNull, id |-> JNull, domain |-> <<>>,
     tag |-> JNull, icon |-> JNull, signed_media |-> << >>]

\* The body of the 200 answer built from an actor document, or what building
\* it raises: .get on a document that is no dict, a loop over a value that is
\* not iterable.
ActorSummary(actor_data, fetched_url, domain) ==
    IF ~IsDict(actor_data) THEN Raises("AttributeError")
    ELSE LET icon     == Get(actor_data, "icon")
             icon_url == IF Truthy(icon) THEN extract_url_from_media_object(icon) ELSE JNull
             signed   == sign_media_urls_in_content(actor_data)
         IN  IF signed.exc # "none" THEN Raises(signed.exc)
             ELSE Returns([handle       |-> GetOr(actor_data, "preferredUsername", JStr(<<>>)),
                           nickname     |-> GetOr(actor_data, "name", JStr(<<>>)),
                           id           |-> GetOr(actor_data, "id", JStr(fetched_url)),
                           domain       |-> domain,
                           tag          |-> GetOr(actor_data, "tag", JList(<<>>)),
                           icon         |-> icon_url,
                           signed_media |-> signed.val])

WebfingerResponse(req, log, status, detail, summary) ==
    [kind |-> "webfinger", resource |-> req.resource, actor_url |-> req.actor_url,
     log |-> log, status |-> status, detail |-> detail, summary |-> summary]

WebfingerError(req, log, exception) ==
    WebfingerResponse(req, log, exception.status, exception.detail, NoSummary)

\* The handler suspended at an await of client.get(target).
WebfingerAwait(req, log, pc, target) ==
    [kind |-> "webfinger", pc |-> pc, resource |-> req.resource,
     actor_url |-> req.actor_url, target |-> target,
     log |-> log \o << Ev(pc, target), Ev("fetch", target) >>]

\* The loop over webfinger_data.get('links', []): the href of the first link
\* of type application/activity+json (None when there is none), or the
\* AttributeError of .get on an entry that is no dict.
RECURSIVE FindActorLink(_, _)
FindActorLink(links, i) ==
    IF i > Len(links) THEN Returns(JNull)
    ELSE IF ~IsDict(links[i]) THEN Raises("AttributeError")
    ELSE IF IsStr(Get(links[i], "type")) /\ Get(links[i], "type")[2] = s_activity_json
    THEN Returns(Get(links[i], "href"))
    ELSE FindActorLink(links, i + 1)

ActorLinkOf(webfinger_data) ==
    IF ~IsDict(webfinger_data) THEN Raises("AttributeError")
    ELSE LET links == GetOr(webfinger_data, "links", JList(<<>>))
         IN  IF ~Iterable(links) THEN Raises("TypeError")
             ELSE IF IsList(links) THEN FindActorLink(links[2], 1)
             ELSE IF Items(links) = {} THEN Returns(JNull)
             ELSE Raises("AttributeError")      \* .get on a character or a key

\* webfinger up to its first await: the response, when the handler ends
\* before it, or the suspended request.
webfinger_enter(resource, actor_url) ==
    LET req == [resource |-> resource, actor_url |-> actor_url]
    IN  IF Missing(resource) /\ Missing(actor_url)
        THEN WebfingerError(req, <<>>, HTTPException(400, "resource or actor_url is required"))
        ELSE IF ~Missing(actor_url)
        THEN WebfingerAwait(req, <<>>, "direct", actor_url)
        ELSE IF StartsWith(resource, s_acct)
        THEN LET acct_parts == Split(SubSeq(resource, 6, Len(resource)), "@")
             IN  IF Len(acct_parts) # 2
                 THEN WebfingerError(req, <<>>, HTTPException(400, "Invalid acct format"))
                 ELSE WebfingerAwait(req, <<>>, "lookup", WebfingerUrl(acct_parts[2], resource))
        ELSE LET netloc == urlparse(resource).netloc
                 domain == IF netloc # <<>> THEN netloc ELSE resource
             IN  WebfingerAwait(req, <<>>, "lookup", WebfingerUrl(domain, s_acct \o resource))

\* webfinger_fallback fetching the resource whatever it begins with.
webfinger_fallback_AnyResource(req, log) ==
    WebfingerAwait(req, log, "fallback", req.resource)

\* The except httpx.HTTPError clause of the lookup: fetch the resource itself
\* when it is an http(s) URL, else raise again.
webfinger_fallback(req, log) ==
    IF StartsWith(req.resource, s_http_prefix) \/ StartsWith(req.resource, s_https_prefix)
    THEN WebfingerAwait(req, log, "fallback", req.resource)
    ELSE WebfingerError(req, log, HTTPException(500, "Failed to fetch webfinger"))

\* webfinger_answer taking the domain of an acct: resource from the resource.
webfinger_answer_AcctDomain(req, log, actor_data, fetched_url) ==
    LET domain  == IF req.resource # None /\ StartsWith(req.resource, s_acct)
                   THEN Split(SubSeq(req.resource, 6, Len(req.resource)), "@")[2]
                   ELSE urlparse(fetched_url).netloc
        summary == ActorSummary(actor_data, fetched_url, domain)
    IN  IF summary.exc # "none"
        THEN WebfingerError(req, log, HTTPException(500, "An error occurred"))
        ELSE WebfingerResponse(req, log, 200, "", summary.val)

\* The answer built from the actor document fetched from fetched_url.
webfinger_answer(req, log, actor_data, fetched_url) ==
    LET summary == ActorSummary(actor_data, fetched_url, urlparse(fetched_url).netloc)
    IN  IF summary.exc # "none"
        THEN WebfingerError(req, log, HTTPException(500, "An error occurred"))
        ELSE WebfingerResponse(req, log, 200, "", summary.val)

\* webfinger from the completion of a client.get to the next await or to the
\* response.
webfinger_resume(req, upstream) ==
    LET log == Append(req.log, Ev("answer", upstream))
    IN  IF RaisesHTTPError(upstream)
        THEN IF req.pc \in {"lookup", "actor"}
             THEN webfinger_fallback(req, log)
             ELSE WebfingerError(req, log, HTTPException(500, "Failed to fetch webfinger"))
        ELSE IF upstream.body = NotJson
        THEN WebfingerError(req, log, HTTPException(500, "An error occurred"))
        ELSE IF req.pc = "lookup"
        THEN LET found == ActorLinkOf(upstream.body)
             IN  IF found.exc # "none"
                 THEN WebfingerError(req, log, HTTPException(500, "An error occurred"))
                 ELSE IF ~Truthy(found.val)
                 THEN WebfingerError(req, log, HTTPException(404, "No ActivityPub actor found"))
                 ELSE IF ~IsStr(found.val)      \* client.get of a value that is no URL
                 THEN WebfingerError(req, log, HTTPException(500, "An error occurred"))
                 ELSE WebfingerAwait(req, log, "actor", found.val[2])
        ELSE webfinger_answer(req, log, upstream.body, req.target)

\* The webfinger requests in flight at a time.  The handler reads and writes
\* nothing that outlives its request (it never touches the cache), so its
\* requests do not interact.
MaxLookupsInFlight == 1

\* A client sends GET /api/webfinger?resource=..&actor_url=..
WebfingerStart(resource, actor_url) ==
    /\ BagCardinality(inflight) < MaxLookupsInFlight
    /\ LET o == webfinger_enter(resource, actor_url)
       IN  IF "pc" \in DOMAIN o
           THEN inflight' = Suspend(o) /\ UNCHANGED resp
           ELSE resp' = o /\ UNCHANGED inflight
    /\ UNCHANGED <<secret, cache, arg, ret>>

\* The upstream answer to a fetch of the webfinger handler arrives.
WebfingerFetchDone(req, upstream) ==
    /\ req.kind = "webfinger"
    /\ LET o == webfinger_resume(req, upstream)
       IN  IF "pc" \in DOMAIN o
           THEN inflight' = Resume(req) (+) SetToBag({o}) /\ UNCHANGED resp
           ELSE inflight' = Resume(req) /\ resp' = o
    /\ UNCHANGED <<secret, cache, arg, ret>>

\* A link of a Webfinger document.
JrdLink(type, href) == JObj(("type" :> JStr(type)) @@ ("href" :> JStr(href)))

JRD_SAME_HOST == JObj("links" :> JList(<<JrdLink(s_text_html_link, HREF_SAME_HOST),
                                          JrdLink(s_activity_json, HREF_SAME_HOST)>>))

JRD_OTHER_HOST == JObj("links" :> JList(<<JrdLink(s_activity_json, HREF_OTHER_HOST)>>))

JRD_NO_ACTOR == JObj("links" :> JList(<<JrdLink(s_text_html_link, HREF_SAME_HOST)>>))

JRD_NO_HREF == JObj("links" :> JList(<<JObj("type" :> JStr(s_activity_json))>>))

JRD_NULL_LINKS == JObj("links" :> JNull)

ACTOR_ALICE ==
    JObj(("id" :> JStr(HREF_SAME_HOST)) @@ ("preferredUsername" :> JStr(s_alice))
           @@ ("icon" :> JObj("url" :> JStr(URL_CDN))))

ACTOR_NULL_TAG == JObj("tag" :> JNull)

\* What the servers the handlers fetch from answer: a transport failure
\* (status 0), an error status, or 200 with a body.
UpstreamJson ==
    { [status |-> 0, body |-> NotJson], [status |-> 404, body |-> NotJson] }
        \cup { [status |-> 200, body |-> b] :
                 b \in { NotJson, JRD_SAME_HOST, JRD_OTHER_HOST, JRD_NO_ACTOR, JRD_NO_HREF,
                         JRD_NULL_LINKS, ACTOR_ALICE, ACTOR_NULL_TAG, JList(<<>>) } }

WebfingerInputs ==
    { [resource |-> None, actor_url |-> None],
      [resource |-> RESOURCE_ACCT, actor_url |-> None],
      [resource |-> RESOURCE_ACCT_BAD, actor_url |-> <<>>],
      [resource |-> RESOURCE_URL, actor_url |-> None],
      [resource |-> RESOURCE_PLAIN, actor_url |-> None],
      [resource |-> None, actor_url |-> ACTOR_URL_LOOPBACK] }

NextWebfinger ==
    \/ \E in \in WebfingerInputs : WebfingerStart(in.resource, in.actor_url)
    \/ \E req \in BagToSet(inflight) : \E upstream \in UpstreamJson :
          WebfingerFetchDone(req, upstream)

SpecWebfinger == ServerInit /\ [][NextWebfinger]_vars

(***************************************************************************)
(* C7, C8: the Webfinger lookup                                            *)
(***************************************************************************)

\* The webfinger requests the state holds: those suspended at a fetch and the
\* one answered last.
WebfingerSeen ==
    { q \in BagToSet(inflight) : q.kind = "webfinger" }
        \cup (IF resp.kind = "webfinger" THEN {resp} ELSE {})

\* The requests with a `resource` and no `actor_url`.
LookupsSeen == { q \in WebfingerSeen : Missing(q.actor_url) /\ ~Missing(q.resource) }

Positions(log, e) == { i \in 1..Len(log) : log[i].e = e }

Completed(q) == "status" \in DOMAIN q

\* The links entries of a document that are of type application/activity+json.
ActorLinks(doc) ==
    IF IsDict(doc) /\ HasKey(doc, "links") /\ IsList(doc[2]["links"])
    THEN { i \in 1..Len(doc[2]["links"][2]) :
             LET link == doc[2]["links"][2][i]
             IN  /\ IsDict(link)
                 /\ HasKey(link, "type")
                 /\ IsStr(link[2]["type"])
                 /\ link[2]["type"][2] = s_activity_json }
    ELSE {}

\* A Webfinger document (RFC 7033): a JSON object whose `links`, when it has
\* them, are a list of objects.
IsJrd(doc) ==
    /\ IsDict(doc)
    /\ HasKey(doc, "links") =>
          /\ IsList(doc[2]["links"])
          /\ \A i \in 1..Len(doc[2]["links"][2]) : IsDict(doc[2]["links"][2][i])

\* The log of a lookup starts: "lookup", fetch, answer.  Whether the answer
\* was a document fetched successfully.
LookupAnswered(q) == Len(q.log) >= 3 /\ q.log[3].e = "answer"

LookupDocument(q) == q.log[3].x.body

\* C7: in a request with a resource and no actor_url, the fallback fetch of
\* the resource happens at most once, only for a resource that begins with
\* http:// or https://, and only right after a fetch of the lookup (of the
\* Webfinger document or of the actor) failed; a Webfinger document fetched
\* successfully that has no link of type application/activity+json ends the
\* request with 404 "No ActivityPub actor found" after that one fetch; a
\* body of any other shape without such a link triggers no further fetch.
C7_FallbackOnlyAfterFailure ==
    \A q \in LookupsSeen :
        /\ Cardinality(Positions(q.log, "fallback")) <= 1
        /\ \A i \in Positions(q.log, "fallback") :
              /\ q.log[i].x = q.resource
              /\ StartsWith(q.resource, s_http_prefix) \/ StartsWith(q.resource, s_https_prefix)
              /\ i > 3
              /\ q.log[i - 1].e = "answer"
              /\ q.log[i - 1].x.status = 0 \/ q.log[i - 1].x.status >= 400
              /\ q.log[i - 2].e = "fetch"
              /\ q.log[i - 3].e \in {"lookup", "actor"}
        /\ \A i \in Positions(q.log, "fetch") :
              q.log[i].x = q.resource /\ q.log[i - 1].e \notin {"lookup", "actor"}
                 => q.log[i - 1].e = "fallback"
        /\ ( /\ LookupAnswered(q)
             /\ q.log[3].x.status = 200
             /\ q.log[3].x.body # NotJson
             /\ ActorLinks(LookupDocument(q)) = {} )
           => /\ Completed(q)
              /\ Cardinality(Positions(q.log, "fetch")) = 1
              /\ IsJrd(LookupDocument(q)) =>
                    q.status = 404 /\ q.detail = "No ActivityPub actor found"

\* A lookup of an http(s) resource has failed, the fallback fetch has been
\* made and answered, and the request has ended with the actor it fetched.
C7_Witness ==
    /\ resp.kind = "webfinger"
    /\ resp \in LookupsSeen
    /\ Cardinality(Positions(resp.log, "fallback")) = 1
    /\ resp.status = 200

\* The acct: lookups that ended with an actor: the resource is acct:user@D,
\* the document lists an actor link, the actor fetch succeeded.
AcctAnswered ==
    { q \in LookupsSeen : /\ Completed(q)
                          /\ StartsWith(q.resource, s_acct)
                          /\ q.status = 200 }

\* The D of acct:user@D.
AcctDomain(resource) == Split(SubSeq(resource, 6, Len(resource)), "@")[2]

\* The href of the first link of type application/activity+json.
ActorHref(doc) ==
    LET first == CHOOSE i \in ActorLinks(doc) : \A j \in ActorLinks(doc) : i <= j
    IN  doc[2]["links"][2][first][2]["href"][2]

\* C8 as stated: an acct:user@D lookup that ends with an actor answers
\* domain D, for every link href.
C8_DomainIsAcctDomain ==
    \A q \in AcctAnswered : q.summary.domain = AcctDomain(q.resource)

\* C8: an acct:user@D lookup that ends with an actor answers, as domain, the
\* network location of the href of the first application/activity+json link
\* of the Webfinger document; that is D exactly when the href points at D.
C8_DomainIsHrefNetloc ==
    \A q \in AcctAnswered :
        LET href == ActorHref(LookupDocument(q))
        IN  /\ q.summary.domain = urlparse(href).netloc
            /\ q.summary.domain = AcctDomain(q.resource)
                  <=> urlparse(href).netloc = AcctDomain(q.resource)

\* An acct: lookup has ended with an actor whose link points at another host
\* than the account's, and has answered that host.
C8_Witness ==
    /\ resp \in AcctAnswered
    /\ resp.summary.domain # AcctDomain(resp.resource)
    /\ resp.summary.domain = urlparse(HREF_OTHER_HOST).netloc

(***************************************************************************)
(* /api/activity                                                           *)
(***************************************************************************)

ActivityKey(url) == <<"a", "c", "t", "i", "v", "i", "t", "y", ":">> \o url

\* error_messages.get(status_code, f"HTTP {status_code} Error")
ErrorMessage(status_code) ==
    CASE status_code = 401 -> "Unauthorized"
      [] status_code = 404 -> "Not Found"
      [] status_code = 410 -> "Gone"
      [] status_code = 403 -> "Forbidden"
      [] status_code = 500 -> "Internal Server Error"
      [] status_code = 502 -> "Bad Gateway"
      [] status_code = 503 -> "Service Unavailable"
      [] OTHER -> "HTTP " \o ToString(status_code) \o " Error"

NoResult ==
    [content |-> JNull, final_url |-> <<>>, redirected |-> FALSE, content_type |-> <<>>,
     status_code |-> 0, signed_media |-> << >>]

ActivityResponse(url, log, status, detail, result, xcache) ==
    [kind |-> "activity", url |-> url, log |-> log, status |-> status, detail |-> detail,
     result |-> result, xcache |-> xcache]

ActivityError(url, log, exception) ==
    ActivityResponse(url, log, exception.status, exception.detail, NoResult, "")

\* sign_media_urls_in_content(content) if isinstance(content, dict) else {}
SignedMediaOf(content) ==
    IF IsDict(content) THEN sign_media_urls_in_content(content) ELSE Returns(<< >>)

ActivityResult(url, content, final_url, content_type, status_code, signed_media) ==
    [content |-> content, final_url |-> final_url, redirected |-> final_url # url,
     content_type |-> content_type, status_code |-> status_code,
     signed_media |-> signed_media]

\* process_url up to its await of client.get: the response, when the handler
\* ends before it, or the suspended request.  The handler validates nothing
\* about the URL before it fetches it.
process_url_enter(raw_url) ==
    LET url       == Strip(raw_url)
        cache_key == ActivityKey(url)
        log1      == << Ev("cache_get", cache_key) >>
        log2      == Append(log1, Ev("fetch", url))
    IN  IF url = <<>>
        THEN ActivityError(raw_url, <<>>, HTTPException(400, "URL is required"))
        ELSE IF CacheHas(cache_key)
        THEN LET content      == cache[cache_key][1]
                 final_url    == cache[cache_key][2]
                 content_type == cache[cache_key][3]
                 signed       == SignedMediaOf(content)
             IN  IF signed.exc # "none"    \* not caught: the framework answers 500
                 THEN ActivityError(raw_url, log1, HTTPException(500, "Internal Server Error"))
                 ELSE ActivityResponse(raw_url, log1, 200, "",
                          ActivityResult(url, content, final_url, content_type, 200, signed.val),
                          "HIT")
        ELSE [kind |-> "activity", pc |-> "fetching", url |-> raw_url, target |-> url,
              log |-> log2]

\* "application/activity+json" in content_type or "application/json" in
\* content_type or "application/ld+json" in content_type
IsJsonType(content_type) ==
    \/ Contains(content_type, s_activity_json)
    \/ Contains(content_type, s_application_json)
    \/ Contains(content_type, s_ld_json)

\* process_url from the completion of client.get: the response and the cache
\* it leaves.
process_url_resume(req, upstream) ==
    LET url          == req.target
        final_url    == IF upstream.final_url = None THEN url ELSE upstream.final_url
        content_type == Lower(upstream.ctype)
        content      == upstream.body
        cache_key    == ActivityKey(url)
        signed       == SignedMediaOf(content)
        ends(exception) == [response |-> ActivityError(req.url, req.log, exception),
                            cache |-> cache]
    IN  IF upstream.status = 0
        THEN ends(HTTPException(500, "Failed to fetch URL"))
        ELSE IF upstream.status >= 400
        THEN ends(HTTPException(upstream.status, ErrorMessage(upstream.status)))
        ELSE IF ~IsJsonType(content_type)
        THEN ends(HTTPException(400,
                  "URL does not appear to be an ActivityPub resource (not JSON)"))
        ELSE IF content = NotJson
        THEN ends(HTTPException(400,
                  "URL does not appear to be an ActivityPub resource (invalid JSON)"))
        ELSE IF ~is_activitypub_content(content, content_type)
        THEN ends(HTTPException(400, "URL does not appear to be an ActivityPub resource"))
        ELSE IF signed.exc # "none"
        THEN [response |-> ActivityError(req.url, req.log,
                                HTTPException(500, "An error occurred")),
              cache |-> CacheSet(cache_key, <<content, final_url, content_type>>)]
        ELSE [response |-> ActivityResponse(req.url, req.log, 200, "",
                                ActivityResult(url, content, final_url, content_type,
                                               upstream.status, signed.val),
                                "MISS"),
              cache |-> CacheSet(cache_key, <<content, final_url, content_type>>)]

\* A client sends GET /api/activity?url=..
ActivityStart(url) ==
    /\ BagCardinality(inflight) < MaxInFlight
    /\ LET o == process_url_enter(url)
       IN  IF "pc" \in DOMAIN o
           THEN inflight' = Suspend(o) /\ UNCHANGED resp
           ELSE resp' = o /\ UNCHANGED inflight
    /\ UNCHANGED <<secret, cache, arg, ret>>

\* The upstream answer to the fetch of an activity request arrives.
ActivityFetchDone(req, upstream) ==
    /\ req.kind = "activity"
    /\ LET o == process_url_resume(req, upstream)
       IN  /\ resp' = o.response
           /\ cache' = o.cache
    /\ inflight' = Resume(req)
    /\ UNCHANGED <<secret, arg, ret>>

URL_ACTOR == RESOURCE_URL

URL_ACTOR_PADDED == <<" ">> \o URL_ACTOR

URL_LOOPBACK == ACTOR_URL_LOOPBACK

URL_MOVED == HREF_OTHER_HOST

ActivityUrls == { URL_BLANK, URL_ACTOR, URL_ACTOR_PADDED, URL_LOOPBACK }

NOTE_HI == JObj(("type" :> JStr(s_Note)) @@ ("content" :> JStr(s_hi)))

NOT_ACTIVITYPUB == JObj("foo" :> JStr(s_x))

\* What the servers /api/activity fetches from answer: a transport failure
\* (status 0), an error status, or 200 with a content type, a body and the
\* URL the redirects ended at (None: no redirect).
UpstreamActivity ==
    { [status |-> 0, ctype |-> <<>>, body |-> NotJson, final_url |-> None],
      [status |-> 404, ctype |-> s_text_html, body |-> NotJson, final_url |-> None],
      [status |-> 418, ctype |-> s_text_html, body |-> NotJson, final_url |-> None],
      [status |-> 200, ctype |-> s_text_html, body |-> NotJson, final_url |-> None],
      [status |-> 200, ctype |-> s_application_json, body |-> NotJson, final_url |-> None],
      [status |-> 200, ctype |-> s_application_json, body |-> NOT_ACTIVITYPUB, final_url |-> None],
      [status |-> 200, ctype |-> s_application_json, body |-> NOTE_HI, final_url |-> None],
      [status |-> 200, ctype |-> <<"A", "p", "p", "l", "i", "c", "a", "t", "i", "o", "n", "/", "A", "c", "t", "i", "v", "i", "t", "y", "+", "J", "S", "O", "N">>, body |-> ACTOR_ALICE, final_url |-> URL_MOVED],
      [status |-> 200, ctype |-> s_activity_json, body |-> ACTOR_NULL_TAG, final_url |-> None] }

NextActivity ==
    \/ \E url \in ActivityUrls : ActivityStart(url)
    \/ \E req \in BagToSet(inflight) : \E upstream \in UpstreamActivity :
          ActivityFetchDone(req, upstream)
    \/ Expiry

SpecActivity == ServerInit /\ [][NextActivity]_vars

(***************************************************************************)
(* C2: validation before every fetch of a request parameter                *)
(***************************************************************************)

\* The requests the state holds, of every endpoint.
RequestsSeen == BagToSet(inflight) \cup (IF resp.kind = "none" THEN {} ELSE {resp})

\* The URLs a request carries in its parameters, as the handler reads them.
ParameterUrls(q) ==
    IF q.kind = "webfinger" THEN {q.resource, q.actor_url} \ {None} ELSE {Strip(q.url)}

\* C2 as stated: every fetch of a URL that came in a request parameter comes,
\* in its request, after a validation of that URL that passed.
C2_FetchesAreValidated ==
    \A q \in RequestsSeen :
        \A i \in Positions(q.log, "fetch") :
            q.log[i].x \in ParameterUrls(q) =>
                \E j \in 1..(i - 1) :
                    /\ q.log[j].e = "url_validated"
                    /\ q.log[j].x = q.log[i].x
                    /\ validate_media_url(q.log[j].x) = Passed

(***************************************************************************)
(* C11, C14: extraction errors and the cache                               *)
(***************************************************************************)

\* The upstream answers whose body process_url takes for ActivityPub content:
\* no error status, a JSON content type, a JSON body, classified as
\* ActivityPub.
ClassifiedAnswers ==
    { upstream \in UpstreamActivity :
        /\ upstream.status # 0
        /\ upstream.status < 400
        /\ IsJsonType(Lower(upstream.ctype))
        /\ upstream.body # NotJson
        /\ is_activitypub_content(upstream.body, Lower(upstream.ctype)) }

\* C11 as stated: for every content that passed the classification, whatever
\* the shapes of its media members, sign_media_urls_in_content returns a map
\* and the /api/activity request that fetched it ends in a success response.
C11_ExtractionNeverFails ==
    [][\A upstream \in ClassifiedAnswers : \A req \in BagToSet(inflight) :
          ActivityFetchDone(req, upstream) =>
              /\ SignedMediaOf(upstream.body).exc = "none"
              /\ resp'.status = 200]_vars

\* C14 as stated: a request of /api/activity or /api/media that ends in an
\* error response (status >= 400) has created or replaced no cache entry: the
\* step that answers it leaves the cache as it was.
C14_ErrorLeavesCacheUnchanged ==
    [][\A req \in BagToSet(inflight) :
          /\ \A upstream \in UpstreamActivity :
                (ActivityFetchDone(req, upstream) /\ resp'.status >= 400) => cache' = cache
          /\ \A upstream \in UpstreamMedia :
                (MediaFetchDone(req, upstream) /\ resp'.status >= 400) => cache' = cache]_vars

(***************************************************************************)
(* The whole server: the three handlers over the one cache, with a client  *)
(* that sends the signed media URLs of a response back to /api/media       *)
(***************************************************************************)

\* A media URL as an upstream document may spell it: with a trailing blank.
URL_CDN_TRAILING == URL_CDN \o <<" ">>

ACTOR_PADDED_ICON ==
    JObj(("type" :> JStr(s_Person)) @@ ("icon" :> JObj("url" :> JStr(URL_CDN_TRAILING))))

\* The _signed_media of a response of /api/activity or /api/webfinger (empty
\* for any other response).
SignedMediaIn(response) ==
    IF response.kind = "activity" THEN response.result.signed_media
    ELSE IF response.kind = "webfinger" THEN response.summary.signed_media
    ELSE << >>

\* The (url, signature) pairs of the last response, as a client sends them
\* back, unchanged, in GET /api/media?url=..&sig=..
ClientReplays ==
    { [url |-> k, sig |-> SignedMediaIn(resp)[k]] : k \in DOMAIN SignedMediaIn(resp) }

ServerUpstreamActivity ==
    { [status |-> 404, ctype |-> s_text_html, body |-> NotJson, final_url |-> None],
      [status |-> 200, ctype |-> s_application_json, body |-> NOT_ACTIVITYPUB, final_url |-> None],
      [status |-> 200, ctype |-> s_activity_json, body |-> ACTOR_ALICE, final_url |-> None],
      [status |-> 200, ctype |-> s_application_json, body |-> ACTOR_PADDED_ICON, final_url |-> None],
      [status |-> 200, ctype |-> s_activity_json, body |-> ACTOR_NULL_TAG, final_url |-> None] }

ServerUpstreamJson ==
    { [status |-> 0, body |-> NotJson],
      [status |-> 200, body |-> ACTOR_ALICE],
      [status |-> 200, body |-> ACTOR_PADDED_ICON] }

ServerUpstreamMedia ==
    { [status |-> 0, ctype |-> <<>>, body |-> NoBody],
      [status |-> 200, ctype |-> s_text_html, body |-> [data |-> "png-a", len |-> 3]],
      [status |-> 200, ctype |-> <<"I", "m", "a", "g", "e", "/", "P", "N", "G">>,
       body |-> [data |-> "png-a", len |-> 3]],
      [status |-> 200, ctype |-> <<>>, body |-> [data |-> "over-limit", len |-> MediaCacheLimit + 1]] }

\* What clients send by themselves: an activity URL, an actor URL, and a media
\* URL with no signature.
ServerInputs ==
    [activity |-> {URL_ACTOR}, actor_url |-> {URL_ACTOR}, media |-> {[url |-> URL_CDN, sig |-> <<>>]}]

Next ==
    \/ \E url \in ServerInputs.activity : ActivityStart(url)
    \/ \E actor_url \in ServerInputs.actor_url : WebfingerStart(None, actor_url)
    \/ \E in \in ServerInputs.media \cup ClientReplays : MediaStart(in.url, in.sig)
    \/ \E req \in BagToSet(inflight) : \E upstream \in ServerUpstreamActivity :
          ActivityFetchDone(req, upstream)
    \/ \E req \in BagToSet(inflight) : \E upstream \in ServerUpstreamJson :
          WebfingerFetchDone(req, upstream)
    \/ \E req \in BagToSet(inflight) : \E upstream \in ServerUpstreamMedia :
          MediaFetchDone(req, upstream)
    \/ Expiry

Spec == ServerInit /\ [][Next]_vars

(***************************************************************************)
(* C13: the signed media URLs a response issues                            *)
(***************************************************************************)

\* The answered media request carried a (url, signature) pair as the resolver
\* issues it: an http(s) URL with the signature of that URL as discovered.
IssuedPairReplayed ==
    /\ resp.kind = "media"
    /\ StartsWith(resp.url, s_http_prefix) \/ StartsWith(resp.url, s_https_prefix)
    /\ resp.sig = sign_media_url(resp.url)

\* C13 as stated: a (url, signature) pair issued in _signed_media and sent
\* back unchanged to /api/media never ends with 403 "Invalid signature".
C13_IssuedPairsAreAccepted ==
    IssuedPairReplayed => ~(resp.status = 403 /\ resp.detail = "Invalid signature")

(***************************************************************************)
(* C12: what the cache holds                                               *)
(***************************************************************************)

s_activity_ns == <<"a", "c", "t", "i", "v", "i", "t", "y", ":">>

s_media_ns == <<"m", "e", "d", "i", "a", ":">>

\* A content type that names JSON, whatever its case.
NamesJson(content_type) ==
    \E t \in { <<"a", "p", "p", "l", "i", "c", "a", "t", "i", "o", "n", "/", "a", "c", "t", "i", "v", "i", "t", "y", "+", "j", "s", "o", "n">>, <<"a", "p", "p", "l", "i", "c", "a", "t", "i", "o", "n", "/", "j", "s", "o", "n">>, <<"a", "p", "p", "l", "i", "c", "a", "t", "i", "o", "n", "/", "l", "d", "+", "j", "s", "o", "n">> } :
        \E i \in 1..Len(content_type) :
            Lower(SubSeq(content_type, i, Min({i + Len(t) - 1, Len(content_type)}))) = t

\* A content type that is empty or names media, whatever its case.
EmptyOrMedia(content_type) ==
    \/ content_type = <<>>
    \/ \E t \in { <<"i", "m", "a", "g", "e", "/">>, <<"v", "i", "d", "e", "o", "/">>, <<"a", "u", "d", "i", "o", "/">>, <<"a", "p", "p", "l", "i", "c", "a", "t", "i", "o", "n", "/", "o", "c", "t", "e", "t", "-", "s", "t", "r", "e", "a", "m">> } :
          Len(content_type) >= Len(t) /\ Lower(SubSeq(content_type, 1, Len(t))) = t

\* An entry of the activity namespace: content that is ActivityPub under the
\* JSON content type stored with it.
IsActivityEntry(entry) ==
    /\ Len(entry) = 3
    /\ NamesJson(entry[3])
    /\ is_activitypub_content(entry[1], entry[3])

\* An entry of the media namespace: bytes with a content type that is empty
\* or a media type.
IsMediaEntry(entry) == Len(entry) = 2 /\ EmptyOrMedia(entry[2])

\* Every entry lies in one of the two namespaces and has its shape.
EntriesAreValidated ==
    \A key \in DOMAIN cache :
        \/ StartsWith(key, s_activity_ns) /\ IsActivityEntry(cache[key])
        \/ StartsWith(key, s_media_ns) /\ IsMediaEntry(cache[key])

\* Every cache lookup of a request is in the namespace of its handler.
ReadsOwnNamespace ==
    \A q \in RequestsSeen : \A i \in Positions(q.log, "cache_get") :
        /\ q.kind \in {"activity", "media"}
        /\ StartsWith(q.log[i].x, IF q.kind = "activity" THEN s_activity_ns ELSE s_media_ns)
        /\ q.log[i].x = (IF q.kind = "activity" THEN s_activity_ns ELSE s_media_ns) \o Strip(q.url)

\* The keys this step created or replaced.
KeysWritten ==
    { key \in DOMAIN cache' : key \notin DOMAIN cache \/ cache'[key] # cache[key] }

\* This step is the completion of the fetch of an activity request that was
\* answered with a status below 400, and it wrote the body and the content
\* type of that answer under the request's `activity:` key.
WrittenByActivityFetch(key) ==
    \E req \in BagToSet(inflight) : \E upstream \in UpstreamActivity \cup ServerUpstreamActivity :
        /\ ActivityFetchDone(req, upstream)
        /\ upstream.status \in 1..399
        /\ NamesJson(upstream.ctype)
        /\ key = s_activity_ns \o Strip(req.url)
        /\ cache'[key][1] = upstream.body
        /\ cache'[key][3] = Lower(upstream.ctype)

\* This step is the completion of the fetch of a media request that was
\* answered successfully, and it wrote the bytes and the content type of that
\* answer under the request's `media:` key.
WrittenByMediaFetch(key) ==
    \E req \in BagToSet(inflight) : \E upstream \in UpstreamMedia :
        /\ MediaFetchDone(req, upstream)
        /\ upstream.status \in 200..299
        /\ EmptyOrMedia(upstream.ctype)
        /\ key = s_media_ns \o Strip(req.url)
        /\ cache'[key] = <<upstream.body, Lower(upstream.ctype)>>

\* C12: in every reachable state each `activity:` entry holds content that is
\* ActivityPub under its JSON content type and each `media:` entry bytes with
\* an empty or media content type; every lookup is in the namespace of its
\* handler; and an entry is created or replaced only by the completion of a
\* fetch that was answered successfully, under the key of that handler's
\* namespace for the requested url, with the data of that answer.
C12_EntriesComeFromValidatedFetches ==
    /\ [](EntriesAreValidated /\ ReadsOwnNamespace)
    /\ [][\A key \in KeysWritten :
             WrittenByActivityFetch(key) \/ WrittenByMediaFetch(key)]_vars

\* The cache holds an entry of each namespace.
C12_Witness ==
    /\ \E key \in DOMAIN cache : StartsWith(key, s_activity_ns)
    /\ \E key \in DOMAIN cache : StartsWith(key, s_media_ns)

====
